---- MODULE Spec2Model ----
(***************************************************************************)
(* A model of the resource acquisition core of tauri-mc-launcher:          *)
(*   - rule evaluation (rule_matches / rules_match),                       *)
(*   - the bounded-concurrency download batch (download_all_callback),     *)
(*   - ResourceManager::download_vanilla_version and its cache,            *)
(*   - the create_instance sequence,                                       *)
(*   - the runtime materialization (download_java_from_runtime_manifest),  *)
(*   - placeholder substitution and construct_arguments,                   *)
(*   - the lock on the shared ResourceManager,                             *)
(*   - extract_natives.                                                    *)
(* Each part has its own specification over the shared variables; the      *)
(* variables of the other parts stay at their idle values.                 *)
(***************************************************************************)
EXTENDS Integers, Sequences, FiniteSets, TLC

VARIABLES
    \* ---- rule evaluation -------------------------------------------------
    rules,        \* the rule list handed to rules_match
    platform,     \* [os, arch]: env::consts::OS / env::consts::ARCH
    ret,          \* what resources.rs rules_match returned ("none" before the call)
    rm_ret,       \* what resource_manager.rs rules_match returned
    \* ---- download batch --------------------------------------------------
    disk,         \* destination path -> content of the file there
    next,         \* index of the next future the stream hands to the buffer
    in_progress,  \* the futures in the buffer_unordered queue (fetch in flight)
    results,      \* item -> the DownloadResult collected for it ("none" before)
    event,        \* item -> what happened to it (history of the item)
    fetches,      \* item -> number of calls of download_bytes_from_url
    callbacks,    \* item -> number of calls of the verify-and-persist callback
    faults,       \* number of per-item failures injected so far
    returned,     \* what download_all_callback returned ("none" while it runs)
    \* ---- ResourceManager -------------------------------------------------
    vanilla_manifest, \* Option<VanillaManifest>: <<>> or <<the version ids it maps>>
    cache,            \* cache path -> content of the file there
    net,              \* number of network requests issued so far
    call,             \* the last ResourceManager call and what it did
    \* ---- create_instance -------------------------------------------------
    ci,              \* the create_instance sequence: its position and locals
    \* ---- download_java_from_runtime_manifest ------------------------------
    rt,              \* the runtime materialization: its position, locals and events
    \* ---- construct_arguments ----------------------------------------------
    ar,              \* the argument construction: its inputs and its result
    \* ---- the lock on the shared ResourceManager ----------------------------
    lk,              \* the tasks that lock ResourceState, and the guarded manifest
    \* ---- extract_natives ---------------------------------------------------
    nat              \* the extraction: its classifiers, position and output

ruleVars  == <<rules, platform, ret, rm_ret>>
batchVars == <<disk, next, in_progress, results, event, fetches, callbacks, faults, returned>>
rmVars    == <<vanilla_manifest, cache, net, call>>
ciVars    == <<ci>>
rtVars    == <<rt>>
argVars   == <<ar>>
lkVars    == <<lk>>
natVars   == <<nat>>
vars      == <<rules, platform, ret, rm_ret,
               disk, next, in_progress, results, event, fetches, callbacks, faults, returned,
               vanilla_manifest, cache, net, call, ci, rt, ar, lk, nat>>

(***************************************************************************)
(* Bounds of the model.                                                    *)
(***************************************************************************)
MaxRules == 2        \* longest rule list evaluated
NumItems == 9        \* items of a download batch (more than the buffer holds)
MaxFaults == 1       \* per-item failures the environment injects into one batch
MaxRequests == 3     \* network requests issued in one run of the ResourceManager model
MaxLibs == 2         \* libraries listed by a per-version manifest
MaxRuns == 2         \* create_instance calls in one behaviour
MaxEntries == 3      \* entries of a runtime manifest
MaxCalls == 2        \* successive substitution calls on one argument
MaxArgs == 2         \* entries of the JVM and of the game argument list
MaxRefreshes == 2    \* manifest refreshes in one behaviour
MaxClassifiers == 3  \* classifiers handed to extract_natives

(***************************************************************************)
(* RuleEvaluator.                                                          *)
(* A rule is [action, kind, os]: kind is "none" (rule_type is None),       *)
(* "features" (RuleType::Features) or "os" (RuleType::OperatingSystem);    *)
(* os is the HashMap<String, String> of the OS predicate, a function from  *)
(* its keys to their values (empty for the other kinds).                   *)
(***************************************************************************)
Platforms ==
    { [os |-> "linux",   arch |-> "x86_64"],
      [os |-> "windows", arch |-> "x86"],
      [os |-> "macos",   arch |-> "aarch64"] }

NoMap == [k \in {} |-> "none"]

OsMaps ==
    { [k \in {"name"} |-> "linux"],
      [k \in {"name"} |-> "windows"],
      [k \in {"name"} |-> "osx"],
      [k \in {"arch"} |-> "x86"],
      [k \in {"version"} |-> "^10\\."],
      [k \in {"name", "arch"} |-> IF k = "name" THEN "osx" ELSE "x86"],
      [k \in {"name", "version"} |-> IF k = "name" THEN "osx" ELSE "^10\\.5"],
      [k \in {"family"} |-> "unix"] }

\* "deny" stands for any action string outside the manifest schema.
Actions == {"allow", "disallow", "deny"}

Rules ==
    { [action |-> a, kind |-> "none", os |-> NoMap] : a \in Actions }
    \cup { [action |-> a, kind |-> "features", os |-> NoMap] : a \in Actions }
    \cup { [action |-> a, kind |-> "os", os |-> m] : a \in {"allow", "disallow"}, m \in OsMaps }
    \cup { [action |-> "deny", kind |-> "os", os |-> [k \in {"name"} |-> "linux"]] }

\* Sequences over S of length at most n.
SeqUpTo(S, n) == UNION { [1..k -> S] : k \in 0..n }

\* One (key, value) entry of an OS predicate against the current system:
\* resources.rs lines 61-76.  "panic" is unimplemented!().
os_entry(key, value, plat) ==
    CASE key = "name" ->
            IF value = plat.os \/ (plat.os = "macos" /\ value = "osx")
            THEN "true" ELSE "false"
      [] key = "arch" ->
            IF value = plat.arch \/ (value = "x86" /\ plat.arch = "x86_64")
            THEN "true" ELSE "false"
      [] key = "version" -> "false"
      [] OTHER -> "panic"

\* The loop over os_rules: the flag starts false and any matching entry sets
\* it; an unknown key aborts whatever the iteration order of the HashMap.
os_rules_loop(os, plat) ==
    IF \E k \in DOMAIN os : os_entry(k, os[k], plat) = "panic" THEN "panic"
    ELSE IF \E k \in DOMAIN os : os_entry(k, os[k], plat) = "true" THEN "true"
    ELSE "false"

\* match rule.action.as_str() { "allow" => m, "disallow" => !m, _ => unimplemented!() }
apply_action(action, m) ==
    CASE action = "allow"    -> m
      [] action = "disallow" -> IF m = "true" THEN "false" ELSE "true"
      [] OTHER               -> "panic"

\* resources.rs rule_matches.
rule_matches(rule, plat) ==
    IF rule.kind = "none" THEN
        CASE rule.action = "allow"    -> "true"
          [] rule.action = "disallow" -> "false"
          [] OTHER                    -> "panic"
    ELSE IF rule.kind = "features" THEN "false"
    ELSE LET m == os_rules_loop(rule.os, plat)
         IN  IF m = "panic" THEN "panic" ELSE apply_action(rule.action, m)

\* resource_manager.rs rule_matches: rule_type is not optional there and a
\* feature rule is todo!().
rm_rule_matches(rule, plat) ==
    IF rule.kind = "features" THEN "panic"
    ELSE LET m == os_rules_loop(rule.os, plat)
         IN  IF m = "panic" THEN "panic" ELSE apply_action(rule.action, m)

\* The loop of rules_match from rule i on, with the value of `result` so far.
RECURSIVE rules_match_from(_, _, _, _)
rules_match_from(rs, plat, i, result) ==
    IF i > Len(rs) THEN result
    ELSE LET m == rule_matches(rs[i], plat)
         IN  IF m = "true" THEN rules_match_from(rs, plat, i + 1, "true")
             ELSE m      \* return false; or the panic unwinds

rules_match(rs, plat) == rules_match_from(rs, plat, 1, "false")

RECURSIVE rm_rules_match_from(_, _, _, _)
rm_rules_match_from(rs, plat, i, result) ==
    IF i > Len(rs) THEN result
    ELSE LET m == rm_rule_matches(rs[i], plat)
         IN  IF m = "true" THEN rm_rules_match_from(rs, plat, i + 1, "true")
             ELSE m

rm_rules_match(rs, plat) == rm_rules_match_from(rs, plat, 1, "false")

(***************************************************************************)
(* HashVerifiedDownloader: download_all_callback over a slice of items,    *)
(* with the verify-and-persist callback the callers pass (validate_hash,   *)
(* then File::create and write_all).                                       *)
(* A file's content is "absent", "good" (bytes with the expected hash) or  *)
(* "corrupt" (bytes with another hash).                                    *)
(***************************************************************************)
BUFFER_SIZE == 8

Items == 1..NumItems

\* The last item names the destination path of the first (a manifest may
\* list one artifact twice); all other paths are distinct.
NumPaths == NumItems - 1
Paths == 1..NumPaths

\* The items the environment may fail: the first of the initial fill of the
\* buffer and the last, which starts only after another item has settled.
FlakyItems == {1, NumItems}

\* item.path(base_dir)
PathOf(i) == ((i - 1) % NumPaths) + 1

\* The digest of a content, and the digest the manifest declares for an item.
Sha1(bytes) == IF bytes = "good" THEN "sha_declared" ELSE "sha_other"
ExpectedHash == "sha_declared"

\* downloader.rs validate_hash
validate_hash(bytes, valid_hash) == Sha1(bytes) = valid_hash

\* A path.exists() that never sees the file.
exists_never(files, p) == FALSE

\* path.exists()
exists(files, p) == files[p] # "absent"

\* impl From<io::Error> / From<reqwest::Error> for DownloadError: what `?`
\* returns from download_single_callback.
from_io_error == "FileWriteError"
from_reqwest_error == "RequestError"

\* let x = callback(&bytes, item); if let Err(err) = x { error!(...) } ... Ok(())
\* An Err of the callback is logged and the item still returns Ok(()).
after_callback(x) == "Ok"

Settled(i) == results[i] # "none"

\* The stream hands the next future to the buffer and it is polled for the
\* first time: path.exists() is checked, then create_dir_all, then the
\* fetch begins.
StartSkip(i) ==
    /\ returned = "none" /\ i = next /\ i <= NumItems
    /\ Cardinality(in_progress) < BUFFER_SIZE
    /\ exists(disk, PathOf(i))
    /\ next' = next + 1
    /\ event' = [event EXCEPT ![i] = "skipped"]
    /\ results' = [results EXCEPT ![i] = "Ok"]
    /\ UNCHANGED <<disk, in_progress, fetches, callbacks, faults, returned>>

\* A first poll that begins the fetch without the buffer's limit.
StartFetch_unbounded(i) ==
    /\ returned = "none" /\ i = next /\ i <= NumItems
    /\ ~exists(disk, PathOf(i))
    /\ next' = next + 1
    /\ event' = [event EXCEPT ![i] = "fetching"]
    /\ fetches' = [fetches EXCEPT ![i] = @ + 1]
    /\ in_progress' = in_progress \cup {i}
    /\ UNCHANGED <<disk, results, callbacks, faults, returned>>

StartFetch(i) ==
    /\ returned = "none" /\ i = next /\ i <= NumItems
    /\ Cardinality(in_progress) < BUFFER_SIZE
    /\ ~exists(disk, PathOf(i))
    /\ next' = next + 1
    /\ event' = [event EXCEPT ![i] = "fetching"]
    /\ fetches' = [fetches EXCEPT ![i] = @ + 1]
    /\ in_progress' = in_progress \cup {i}
    /\ UNCHANGED <<disk, results, callbacks, faults, returned>>

\* fs::create_dir_all(dir_path)? fails: the item ends before any fetch.
StartDirError(i) ==
    /\ returned = "none" /\ i = next /\ i <= NumItems
    /\ Cardinality(in_progress) < BUFFER_SIZE
    /\ ~exists(disk, PathOf(i))
    /\ i \in FlakyItems /\ faults < MaxFaults
    /\ faults' = faults + 1
    /\ next' = next + 1
    /\ event' = [event EXCEPT ![i] = "direrr"]
    /\ results' = [results EXCEPT ![i] = from_io_error]
    /\ UNCHANGED <<disk, in_progress, fetches, callbacks, returned>>

\* A fetch in the buffer is resumed whenever its response or its error has
\* arrived, in any order relative to the other futures of the buffer.
CanResume(i) == returned = "none" /\ i \in in_progress

\* A failed fetch that ends the whole batch with its error.
FetchFails_aborts(i) ==
    /\ CanResume(i)
    /\ i \in FlakyItems /\ faults < MaxFaults
    /\ faults' = faults + 1
    /\ in_progress' = in_progress \ {i}
    /\ event' = [event EXCEPT ![i] = "neterr"]
    /\ results' = [results EXCEPT ![i] = from_reqwest_error]
    /\ returned' = from_reqwest_error
    /\ UNCHANGED <<disk, next, fetches, callbacks>>

\* download_bytes_from_url(...).await? fails.
FetchFails(i) ==
    /\ CanResume(i)
    /\ i \in FlakyItems /\ faults < MaxFaults
    /\ faults' = faults + 1
    /\ in_progress' = in_progress \ {i}
    /\ event' = [event EXCEPT ![i] = "neterr"]
    /\ results' = [results EXCEPT ![i] = from_reqwest_error]
    /\ UNCHANGED <<disk, next, fetches, callbacks, returned>>

\* The verify-and-persist callback on the fetched bytes: what it returns and
\* the file it leaves, for `io` the outcome of File::create / write_all.
callback_result(bytes, io) ==
    IF ~validate_hash(bytes, ExpectedHash) THEN "InvalidFileHashError"
    ELSE IF io # "ok" THEN "FileWriteError"
    ELSE "Ok"

callback_file(bytes, io, old) ==
    IF ~validate_hash(bytes, ExpectedHash) THEN old
    ELSE IF io = "create_fails" THEN old
    ELSE IF io = "write_fails" THEN "corrupt"
    ELSE bytes

callback_event(r, io) ==
    CASE r = "InvalidFileHashError" -> "badhash"
      [] r = "FileWriteError"       -> IF io = "create_fails" THEN "createerr" ELSE "writeerr"
      [] OTHER                      -> "written"

\* The bytes a fetch can return, with the outcome of the file operations of
\* the callback (reached only when the bytes pass validate_hash).
FetchOutcomes ==
    { <<"good", "ok">>, <<"good", "create_fails">>, <<"good", "write_fails">>,
      <<"corrupt", "ok">> }

\* The fetch returns bytes and the callback runs on them.
FetchReturns(i, bytes, io) ==
    /\ CanResume(i)
    /\ (bytes = "good" /\ io = "ok") \/ (i \in FlakyItems /\ faults < MaxFaults)
    /\ faults' = IF bytes = "good" /\ io = "ok" THEN faults ELSE faults + 1
    /\ in_progress' = in_progress \ {i}
    /\ callbacks' = [callbacks EXCEPT ![i] = @ + 1]
    /\ disk' = [disk EXCEPT ![PathOf(i)] = callback_file(bytes, io, @)]
    /\ event' = [event EXCEPT ![i] = callback_event(callback_result(bytes, io), io)]
    /\ results' = [results EXCEPT ![i] = after_callback(callback_result(bytes, io))]
    /\ UNCHANGED <<next, fetches, returned>>

\* A collect() that ends as soon as the stream is exhausted.
BatchReturns_early ==
    /\ returned = "none"
    /\ next > NumItems
    /\ returned' = "Ok"
    /\ UNCHANGED <<disk, next, in_progress, results, event, fetches, callbacks, faults>>

\* collect() ends once the stream and the buffer are empty; x.await; Ok(())
BatchReturns ==
    /\ returned = "none"
    /\ next > NumItems /\ in_progress = {}
    /\ returned' = "Ok"
    /\ UNCHANGED <<disk, next, in_progress, results, event, fetches, callbacks, faults>>

\* Idle values of the parts a specification does not exercise.
RulesIdle ==
    /\ rules = <<>> /\ platform = [os |-> "linux", arch |-> "x86_64"]
    /\ ret = "none" /\ rm_ret = "none"

BatchIdle ==
    /\ disk = [p \in Paths |-> "absent"]
    /\ next = 1 /\ in_progress = {}
    /\ results = [i \in Items |-> "none"]
    /\ event = [i \in Items |-> "pending"]
    /\ fetches = [i \in Items |-> 0]
    /\ callbacks = [i \in Items |-> 0]
    /\ faults = 0 /\ returned = "none"

RmIdle ==
    /\ vanilla_manifest = <<>>
    /\ cache = <<>>
    /\ net = 0
    /\ call = [op |-> "none"]

CiIdle == ci = [pc |-> "idle"]

RtIdle == rt = [pc |-> "idle"]

ArgIdle == ar = [pc |-> "idle"]

LkIdle == lk = [pc |-> "idle"]

NatIdle == nat = [pc |-> "idle"]

\* The base directory before a batch: empty, or holding the file of the
\* first path (intact, or left corrupt by an earlier crash), or holding
\* every file (the state a complete earlier run leaves).
InitialDisks ==
    { [p \in Paths |-> IF p = PathOf(NumItems) THEN c ELSE "absent"] :
          c \in {"absent", "good", "corrupt"} }
    \cup { [p \in Paths |-> "good"] }

BatchInit ==
    /\ disk \in InitialDisks
    /\ next = 1 /\ in_progress = {}
    /\ results = [i \in Items |-> "none"]
    /\ event = [i \in Items |-> "pending"]
    /\ fetches = [i \in Items |-> 0]
    /\ callbacks = [i \in Items |-> 0]
    /\ faults = 0 /\ returned = "none"
    /\ RulesIdle /\ RmIdle /\ CiIdle /\ RtIdle /\ ArgIdle /\ LkIdle /\ NatIdle

BatchNext ==
    \/ \E i \in Items : StartSkip(i) /\ UNCHANGED <<ruleVars, rmVars, ciVars, rtVars, argVars, lkVars, natVars>>
    \/ \E i \in Items : StartFetch(i) /\ UNCHANGED <<ruleVars, rmVars, ciVars, rtVars, argVars, lkVars, natVars>>
    \/ \E i \in Items : StartDirError(i) /\ UNCHANGED <<ruleVars, rmVars, ciVars, rtVars, argVars, lkVars, natVars>>
    \/ \E i \in Items : FetchFails(i) /\ UNCHANGED <<ruleVars, rmVars, ciVars, rtVars, argVars, lkVars, natVars>>
    \/ \E i \in Items : \E o \in FetchOutcomes :
          FetchReturns(i, o[1], o[2]) /\ UNCHANGED <<ruleVars, rmVars, ciVars, rtVars, argVars, lkVars, natVars>>
    \/ BatchReturns /\ UNCHANGED <<ruleVars, rmVars, ciVars, rtVars, argVars, lkVars, natVars>>

SpecBatch == BatchInit /\ [][BatchNext]_vars

\* Every fetch eventually settles and the executor keeps polling the batch.
FairSpecBatch == SpecBatch /\ WF_vars(BatchNext)

(***************************************************************************)
(* ResourceManager (resource_manager.rs): the version manifest held in     *)
(* memory and the per-version manifests cached under versions/.            *)
(* Option<T> is <<>> (None) or <<v>> (Some(v)); the loaded manifest is the *)
(* set of version ids it has an entry {url, sha1} for.                     *)
(***************************************************************************)
None == <<>>
Some(v) == <<v>>

VersionIds == {"1.20.1", "1.19.4", "9.9.9"}

\* What VANILLA_MANIFEST_URL can serve: "9.9.9" is in no manifest.
RemoteManifests == { {"1.20.1"}, {"1.20.1", "1.19.4"} }

\* self.version_dir.join(format!("{}.json", version_id))
get_version_file_path(version_id) == "versions/" \o version_id \o ".json"

\* serialize_version: self.version_dir.join(version_id).join(format!("{}.json", version_id))
serialize_version_path(version_id) ==
    "versions/" \o version_id \o "/" \o version_id \o ".json"

VersionPaths ==
    { get_version_file_path(v) : v \in VersionIds }
    \cup { serialize_version_path(v) : v \in VersionIds }

\* validate_file_hash: the file exists and its bytes have the expected hash.
validate_file_hash(files, path, valid_hash) ==
    IF ~exists(files, path) THEN FALSE
    ELSE validate_hash(files[path], valid_hash)

\* The ways download_vanilla_version(version_id) can end, given the manifest
\* in memory and the files on disk: what it returns, the files it leaves,
\* the network requests it issued and the paths it wrote.
fetched_version_outcomes(files, version_id) ==
    \* download_bytes_from_url(&manifest_version.url).await? fails
    { [ret |-> "HttpError", files |-> files, requests |-> 1, wrote |-> {},
        received |-> "none"] }
    \cup
    \* validate_hash(&bytes, "") is computed and dropped; serialize_version
    \* writes the bytes, or fails; then the bytes are parsed
    UNION { { [ret |-> "SerializationFilesystemError", files |-> files,
               requests |-> 1, wrote |-> {}, received |-> bytes] }
            \cup
            { [ret |-> r,
               files |-> [files EXCEPT ![serialize_version_path(version_id)] = bytes],
               requests |-> 1,
               wrote |-> {serialize_version_path(version_id)},
               received |-> bytes]
              : r \in IF bytes = "good" THEN {"Ok"}
                      ELSE {"Ok", "JsonSerializationError"} }
          : bytes \in {"good", "corrupt"} }

\* A lookup that goes to the network when no manifest is loaded.
download_vanilla_version_unready(manifest, files, version_id) ==
    IF manifest # None /\ version_id \notin manifest[1] THEN
        { [ret |-> "VersionRetrievalError", files |-> files, requests |-> 0, wrote |-> {},
            received |-> "none"] }
    ELSE IF validate_file_hash(files, get_version_file_path(version_id), ExpectedHash) THEN
        { [ret |-> "Ok", files |-> files, requests |-> 0, wrote |-> {},
            received |-> "none"] }
    ELSE fetched_version_outcomes(files, version_id)

\* A lookup that fetches whatever the manifest says about the version id.
download_vanilla_version_unchecked(manifest, files, version_id) ==
    IF manifest = None THEN
        { [ret |-> "ResourceError", files |-> files, requests |-> 0, wrote |-> {},
            received |-> "none"] }
    ELSE IF validate_file_hash(files, get_version_file_path(version_id), ExpectedHash) THEN
        { [ret |-> "Ok", files |-> files, requests |-> 0, wrote |-> {},
            received |-> "none"] }
    ELSE fetched_version_outcomes(files, version_id)

download_vanilla_version(manifest, files, version_id) ==
    IF manifest = None THEN
        { [ret |-> "ResourceError", files |-> files, requests |-> 0, wrote |-> {},
            received |-> "none"] }
    ELSE IF version_id \notin manifest[1] THEN
        { [ret |-> "VersionRetrievalError", files |-> files, requests |-> 0, wrote |-> {},
            received |-> "none"] }
    ELSE IF validate_file_hash(files, get_version_file_path(version_id), ExpectedHash) THEN
        \* deserialize_cached_vanilla_version
        { [ret |-> "Ok", files |-> files, requests |-> 0, wrote |-> {},
            received |-> "none"] }
    ELSE fetched_version_outcomes(files, version_id)

\* ResourceManager::new, over a data directory that is empty or holds a
\* per-version manifest (intact or not) at the path the cache check reads.
InitialCaches ==
    { [p \in VersionPaths |->
          IF p = get_version_file_path("1.20.1") THEN c ELSE "absent"]
      : c \in {"absent", "good", "corrupt"} }

RmInit ==
    /\ vanilla_manifest = None
    /\ cache \in InitialCaches
    /\ net = 0
    /\ call = [op |-> "new"]
    /\ RulesIdle /\ BatchIdle /\ CiIdle /\ RtIdle /\ ArgIdle /\ LkIdle /\ NatIdle

\* download_manifests: one request; the manifest is replaced on success only.
DownloadManifests ==
    /\ net < MaxRequests
    /\ net' = net + 1
    /\ \/ /\ \E m \in RemoteManifests : vanilla_manifest' = Some(m)
          /\ call' = [op |-> "download_manifests", ret |-> "Ok"]
       \/ /\ vanilla_manifest' = vanilla_manifest
          /\ call' = [op |-> "download_manifests", ret |-> "HttpError"]
    /\ UNCHANGED cache

DownloadVanillaVersion(version_id) ==
    \E o \in download_vanilla_version(vanilla_manifest, cache, version_id) :
        /\ net + o.requests <= MaxRequests
        /\ net' = net + o.requests
        /\ cache' = o.files
        /\ call' = [op |-> "download_vanilla_version", version_id |-> version_id,
                    manifest |-> vanilla_manifest, ret |-> o.ret,
                    requests |-> o.requests, wrote |-> o.wrote,
                    received |-> o.received, before |-> cache]
        /\ UNCHANGED vanilla_manifest

RmNext ==
    \/ DownloadManifests /\ UNCHANGED <<ruleVars, batchVars, ciVars, rtVars, argVars, lkVars, natVars>>
    \/ \E v \in VersionIds :
          DownloadVanillaVersion(v) /\ UNCHANGED <<ruleVars, batchVars, ciVars, rtVars, argVars, lkVars, natVars>>

SpecRm == RmInit /\ [][RmNext]_vars

(***************************************************************************)
(* create_instance (resources.rs): the acquisition sequence for one        *)
(* version.  ci holds the position in the sequence, its locals and, per    *)
(* call, the kinds of artifact a network request was issued for.           *)
(* Every file of the data directory is in `cache`; the remote manifests    *)
(* (the libraries the per-version manifest lists) do not change.           *)
(***************************************************************************)
OsRule(action, name) ==
    [action |-> action, kind |-> "os", os |-> [k \in {"name"} |-> name]]

\* A library of the per-version manifest: its name, its optional rule set
\* and whether it has a classifier (native variant) for the platform.
Libraries ==
    { [name |-> "core",    rules |-> None, natives |-> TRUE],
      [name |-> "posix",   rules |-> Some(<<OsRule("disallow", "windows")>>), natives |-> FALSE],
      [name |-> "cocoa",   rules |-> Some(<<OsRule("allow", "osx")>>), natives |-> TRUE],
      [name |-> "norules", rules |-> Some(<<>>), natives |-> FALSE],
      [name |-> "family",  rules |-> Some(<<[action |-> "allow", kind |-> "os",
                                             os |-> [k \in {"family"} |-> "unix"]]>>),
                           natives |-> FALSE] }

\* lib.path(libraries_dir) and classifier.path(libraries_dir)
library_path(lib) == "libraries/" \o lib.name \o ".jar"
classifier_path(lib) == "libraries/" \o lib.name \o "-natives.jar"

\* download_game_jar: versions_dir.join(version_id).join("client.jar")
game_jar_path(version_id) == "versions/" \o version_id \o "/client.jar"

\* The single file and the single link of the runtime manifest, the logging
\* configuration, the asset index and the single asset object of the model.
RuntimeFile == "java/jre/bin/java"
RuntimeLink == "java/jre/bin/javac"
LoggingFile == "assets/objects/lo/client.xml"
AssetIndexFile == "assets/indexes/5.json"
AssetObjectFile == "assets/objects/ab/abcdef"

CiPaths ==
    VersionPaths
    \cup { library_path(l) : l \in Libraries } \cup { classifier_path(l) : l \in Libraries }
    \cup { game_jar_path(v) : v \in VersionIds }
    \cup { RuntimeFile, RuntimeLink, LoggingFile, AssetIndexFile, AssetObjectFile }

\* A filter that keeps every library, whatever its rules.
filter_libraries_keep_all(libs, plat) == libs

\* version.libraries.into_iter().filter_map(...).collect()
RECURSIVE filter_libraries(_, _)
filter_libraries(libs, plat) ==
    IF libs = <<>> THEN <<>>
    ELSE LET lib == Head(libs)
             rest == filter_libraries(Tail(libs), plat)
         IN  IF lib.rules # None /\ rules_match(lib.rules[1], plat) # "true"
             THEN rest
             ELSE <<lib>> \o rest

\* rules_match aborts on one of the libraries' rule sets.
filter_panics(libs, plat) ==
    \E i \in 1..Len(libs) :
        libs[i].rules # None /\ rules_match(libs[i].rules[1], plat) = "panic"

\* The files a download batch over `paths` can leave and whether it issued a
\* request: an item whose path exists is skipped, every other item is
\* fetched and written, except that one of them may fail (budget permitting),
\* which is logged and leaves its file absent.  The batch itself returns Ok.
buffered_stream_download(files, paths, may_fail) ==
    LET missing == { p \in paths : ~exists(files, p) }
        done(W) == [p \in DOMAIN files |-> IF p \in W THEN "good" ELSE files[p]]
    IN  { [files |-> done(missing), requested |-> missing # {}, fault |-> 0] }
        \cup IF may_fail
             THEN { [files |-> done(missing \ {p}), requested |-> TRUE, fault |-> 1]
                    : p \in missing }
             ELSE {}

\* A singly downloaded artifact (game jar, logging configuration): cached
\* bytes with the expected hash are used, otherwise the artifact is fetched,
\* verified and written.
single_download(files, path, may_fail) ==
    IF validate_file_hash(files, path, ExpectedHash)
    THEN { [ret |-> "Ok", files |-> files, requested |-> FALSE, fault |-> 0] }
    ELSE { [ret |-> "Ok", files |-> [files EXCEPT ![path] = "good"],
            requested |-> TRUE, fault |-> 0] }
         \cup IF may_fail
              THEN { [ret |-> "HttpError", files |-> files, requested |-> TRUE, fault |-> 1],
                     [ret |-> "InvalidFileDownload", files |-> files,
                      requested |-> TRUE, fault |-> 1] }
              ELSE {}

CiInit ==
    /\ platform \in Platforms
    /\ rules = <<>> /\ ret = "none" /\ rm_ret = "none"
    /\ vanilla_manifest \in {None, Some({"1.20.1"})}
    /\ cache = [p \in CiPaths |-> "absent"]
    /\ net = 0 /\ call = [op |-> "new"]
    /\ \E libs \in SeqUpTo(Libraries, MaxLibs) :
          ci = [pc |-> "idle", selected |-> "none", version_libraries |-> libs,
                libraries |-> <<>>, passed |-> None, classifiers |-> {},
                fetched |-> {}, ret |-> "none", prev |-> "none",
                prev_selected |-> "none", runs |-> 0,
                instance_name |-> "none", store |-> {}, store_before |-> {},
                natives |-> {}]
    /\ BatchIdle /\ RtIdle /\ ArgIdle /\ LkIdle /\ NatIdle

\* A stage ends the call with an error (or an abort), or hands over to the
\* next stage.
CiStep(o, kinds, next_pc) ==
    /\ faults' = faults + o.fault
    /\ cache' = o.files
    /\ ci' = [ci EXCEPT !.fetched = IF o.requested THEN @ \cup kinds ELSE @,
                        !.pc = IF o.ret = "Ok" THEN next_pc ELSE "done",
                        !.ret = IF o.ret = "Ok" THEN @ ELSE o.ret]

\* The instance name the caller passes.
InstanceName == "my-instance"

\* create_instance(selected, instance_name, app_handle): the lock is taken.
CiBegin(selected, instance_name) ==
    /\ ci.pc = "idle" /\ ci.runs < MaxRuns
    /\ ci' = [ci EXCEPT !.pc = "version", !.selected = selected,
                        !.instance_name = instance_name, !.store_before = ci.store,
                        !.fetched = {},
                        !.libraries = <<>>, !.passed = None, !.classifiers = {},
                        !.ret = "none"]
    /\ UNCHANGED <<cache, faults>>

\* The request, the write or the parse failed, or the bytes received were
\* not those of the manifest: an outcome the fault budget pays for.
version_fault(o) ==
    \/ o.ret \in {"HttpError", "SerializationFilesystemError", "JsonSerializationError"}
    \/ \E p \in o.wrote : o.files[p] = "corrupt"

\* resource_manager.download_vanilla_version(&selected).await?
CiDownloadVanillaVersion ==
    /\ ci.pc = "version"
    /\ \E o \in download_vanilla_version(vanilla_manifest, cache, ci.selected) :
          /\ version_fault(o) => faults < MaxFaults
          /\ CiStep([ret |-> o.ret, files |-> o.files, requested |-> o.requests > 0,
                     fault |-> IF version_fault(o) THEN 1 ELSE 0],
                    {"version_manifest"}, "filter")

\* The libraries whose rules do not match are removed from the list.
CiFilterLibraries ==
    /\ ci.pc = "filter"
    /\ IF filter_panics(ci.version_libraries, platform)
       THEN ci' = [ci EXCEPT !.pc = "done", !.ret = "panic"]
       ELSE ci' = [ci EXCEPT !.pc = "libraries",
                            !.libraries = filter_libraries(ci.version_libraries, platform)]
    /\ UNCHANGED <<cache, faults>>

\* download_libraries: the batch of the libraries, then the batch of their
\* classifiers.
CiDownloadLibraries ==
    /\ ci.pc = "libraries"
    /\ LET libs == { ci.libraries[i] : i \in 1..Len(ci.libraries) }
           cls == { l \in libs : l.natives }
       IN  \E o1 \in buffered_stream_download(cache, { library_path(l) : l \in libs },
                                               faults < MaxFaults) :
           \E o2 \in buffered_stream_download(o1.files, { classifier_path(l) : l \in cls },
                                               faults + o1.fault < MaxFaults) :
             /\ faults' = faults + o1.fault + o2.fault
             /\ cache' = o2.files
             /\ ci' = [ci EXCEPT !.passed = Some(ci.libraries),
                                 !.classifiers = { classifier_path(l) : l \in cls },
                                 !.fetched = @ \cup (IF o1.requested THEN {"library"} ELSE {})
                                               \cup (IF o2.requested THEN {"classifier"} ELSE {}),
                                 !.pc = "game_jar"]

\* download_game_jar(versions_dir, JarType::Client, ...).await?
CiDownloadGameJar ==
    /\ ci.pc = "game_jar"
    /\ \E o \in single_download(cache, game_jar_path(ci.selected), faults < MaxFaults) :
          CiStep(o, {"game_jar"}, "java")

\* download_java_version: the java manifest and the runtime manifest are
\* requested with download_json_object on every call; then the runtime's
\* file is downloaded in a batch and its link created unless it exists
\* (canonicalize fails when the link's target was not downloaded).
CiDownloadJavaVersion ==
    /\ ci.pc = "java"
    /\ \/ /\ faults < MaxFaults
          /\ \E kinds \in {{"java_manifest"}, {"java_manifest", "runtime_manifest"}} :
                CiStep([ret |-> "HttpError", files |-> cache, requested |-> TRUE,
                        fault |-> 1], kinds, "logging")
       \/ \E o \in buffered_stream_download(cache, {RuntimeFile}, faults < MaxFaults) :
            LET linked == IF exists(o.files, RuntimeLink) THEN o.files
                          ELSE [o.files EXCEPT ![RuntimeLink] = o.files[RuntimeFile]]
                r == IF ~exists(o.files, RuntimeLink) /\ ~exists(o.files, RuntimeFile)
                     THEN "SerializationFilesystemError" ELSE "Ok"
            IN  /\ faults' = faults + o.fault
                /\ cache' = linked
                /\ ci' = [ci EXCEPT !.fetched = @ \cup {"java_manifest", "runtime_manifest"}
                                          \cup (IF o.requested THEN {"runtime_file"} ELSE {}),
                                    !.pc = IF r = "Ok" THEN "logging" ELSE "done",
                                    !.ret = IF r = "Ok" THEN @ ELSE r]

\* download_logging_configurations(asset_objects_dir, &version.logging).await?
CiDownloadLogging ==
    /\ ci.pc = "logging"
    /\ \E o \in single_download(cache, LoggingFile, faults < MaxFaults) :
          CiStep(o, {"logging"}, "assets")

\* download_assets: the asset index is requested twice on every call and
\* its file rewritten; then the asset objects are downloaded in a batch,
\* whose result is only logged.
CiDownloadAssets ==
    /\ ci.pc = "assets"
    /\ \/ /\ faults < MaxFaults
          /\ CiStep([ret |-> "HttpError", files |-> cache, requested |-> TRUE, fault |-> 1],
                    {"asset_index"}, "instance")
       \/ \E o \in buffered_stream_download([cache EXCEPT ![AssetIndexFile] = "good"],
                                              {AssetObjectFile}, faults < MaxFaults) :
            /\ faults' = faults + o.fault
            /\ cache' = o.files
            /\ ci' = [ci EXCEPT !.fetched = @ \cup {"asset_index"}
                                      \cup (IF o.requested THEN {"asset_object"} ELSE {}),
                                !.pc = "instance"]

\* The instance directory is created, the arguments are constructed and
\* the InstanceConfiguration is handed to the instance store.
CiAddInstance ==
    /\ ci.pc = "instance"
    /\ \/ ci' = [ci EXCEPT !.store = @ \cup {ci.instance_name}, !.pc = "natives"]
       \/ /\ faults < MaxFaults
          /\ ci' = [ci EXCEPT !.pc = "done", !.ret = "SerializationFilesystemError"]
    /\ faults' = IF ci'.pc = "done" THEN faults + 1 ELSE faults
    /\ UNCHANGED cache

\* extract_natives(...)? and Ok(()): a classifier whose download failed
\* cannot be opened.
CiExtractNatives ==
    /\ ci.pc = "natives"
    /\ IF \E c \in ci.classifiers : ~exists(cache, c)
       THEN ci' = [ci EXCEPT !.pc = "done", !.ret = "SerializationFilesystemError"]
       ELSE ci' = [ci EXCEPT !.pc = "done", !.ret = "Ok", !.natives = ci.classifiers]
    /\ UNCHANGED <<cache, faults>>

\* create_instance has returned; the caller may call it again.
CiReturn ==
    /\ ci.pc = "done"
    /\ ci' = [ci EXCEPT !.pc = "idle", !.prev = ci.ret, !.prev_selected = ci.selected,
                        !.runs = @ + 1]
    /\ UNCHANGED <<cache, faults>>

CiUnchanged ==
    UNCHANGED <<rules, platform, ret, rm_ret, disk, next, in_progress, results, event,
                fetches, callbacks, returned, vanilla_manifest, net, call, rt, ar, lk, nat>>

CiNext ==
    \/ \E v \in {"1.20.1", "9.9.9"} : CiBegin(v, InstanceName) /\ CiUnchanged
    \/ CiDownloadVanillaVersion /\ CiUnchanged
    \/ CiFilterLibraries /\ CiUnchanged
    \/ CiDownloadLibraries /\ CiUnchanged
    \/ CiDownloadGameJar /\ CiUnchanged
    \/ CiDownloadJavaVersion /\ CiUnchanged
    \/ CiDownloadLogging /\ CiUnchanged
    \/ CiDownloadAssets /\ CiUnchanged
    \/ CiAddInstance /\ CiUnchanged
    \/ CiExtractNatives /\ CiUnchanged
    \/ CiReturn /\ CiUnchanged

SpecCi == CiInit /\ [][CiNext]_vars

(***************************************************************************)
(* download_java_from_runtime_manifest (resources.rs): the runtime         *)
(* manifest is requested, its entries are walked once (directories are     *)
(* created, files and links set aside), the files are downloaded in a      *)
(* batch, and the links are created.  rt.events is the history of what     *)
(* was done to the runtime directory.                                      *)
(***************************************************************************)
Directory(path) == [kind |-> "dir", path |-> path, target |-> ""]
RuntimeFileEntry(path) == [kind |-> "file", path |-> path, target |-> ""]
Link(path, target) == [kind |-> "link", path |-> path, target |-> target]

RtEntries ==
    { Directory("bin"), RuntimeFileEntry("bin/java"), Link("bin/javac", "bin/java"),
      Directory("lib"), RuntimeFileEntry("lib/libjvm.so"),
      Link("bin/keytool", "bin/java"), Link("lib/libjsig.so", "lib/libjvm.so") }

RtPaths == { e.path : e \in RtEntries }

\* path.parent()
parent(path) ==
    CASE path \in {"bin/java", "bin/javac", "bin/keytool"} -> "bin"
      [] path \in {"lib/libjvm.so", "lib/libjsig.so"} -> "lib"
      [] OTHER -> ""

\* The runtime manifests of the model: entries in any order, none twice.
RuntimeManifests ==
    { m \in SeqUpTo(RtEntries, MaxEntries) :
        \A i, j \in 1..Len(m) : i # j => m[i] # m[j] }

Event(ev, path) == [ev |-> ev, path |-> path]

\* fs::create_dir_all(path): the directory and its missing ancestors.
create_dir_all(fs, path) ==
    [p \in DOMAIN fs |-> IF p = path /\ fs[p] = "absent" THEN "dir" ELSE fs[p]]

RtInit ==
    /\ \E m \in RuntimeManifests, present \in {{}, {"bin/java"}} :
          rt = [pc |-> "request", manifest |-> m, present |-> present, i |-> 1,
                files |-> <<>>,
                links |-> <<>>, next |-> 1, in_flight |-> {}, settled |-> {},
                fs |-> [p \in RtPaths |-> IF p \in present THEN "good"
                                          ELSE IF parent(p) = "" /\ \E q \in present : parent(q) = p
                                               THEN "dir" ELSE "absent"],
                events |-> <<>>, ret |-> "none"]
    /\ RulesIdle /\ BatchIdle /\ RmIdle /\ CiIdle /\ ArgIdle /\ LkIdle /\ NatIdle

RtFail(error) ==
    /\ faults < MaxFaults
    /\ faults' = faults + 1
    /\ rt' = [rt EXCEPT !.pc = "done", !.ret = error]

\* download_json_object(&manifest.manifest.url()).await?
RtRequestManifest ==
    /\ rt.pc = "request"
    /\ \/ rt' = [rt EXCEPT !.pc = "entries"] /\ UNCHANGED faults
       \/ RtFail("HttpError")

\* One iteration of `for jrt in version_manifest.files`.
RtEntry ==
    /\ rt.pc = "entries" /\ rt.i <= Len(rt.manifest)
    /\ LET jrt == rt.manifest[rt.i]
       IN  CASE jrt.kind = "file" ->
                  /\ rt' = [rt EXCEPT !.files = Append(@, jrt), !.i = @ + 1]
                  /\ UNCHANGED faults
             [] jrt.kind = "link" ->
                  /\ rt' = [rt EXCEPT !.links = Append(@, jrt), !.i = @ + 1]
                  /\ UNCHANGED faults
             [] OTHER ->
                  \/ /\ rt' = [rt EXCEPT !.fs = create_dir_all(@, jrt.path),
                                         !.events = Append(@, Event("mkdir", jrt.path)),
                                         !.i = @ + 1]
                     /\ UNCHANGED faults
                  \/ RtFail("SerializationFilesystemError")

\* The loop has ended; buffered_stream_download(&files, ...) is called.
RtEntriesDone ==
    /\ rt.pc = "entries" /\ rt.i > Len(rt.manifest)
    /\ rt' = [rt EXCEPT !.pc = "files"]
    /\ UNCHANGED faults

\* The stream hands the next file's future to the buffer and it is polled:
\* a file that exists is settled at once, otherwise its parent directory is
\* created and its request sent.
RtStartFile ==
    /\ rt.pc = "files" /\ rt.next <= Len(rt.files)
    /\ Cardinality(rt.in_flight) < BUFFER_SIZE
    /\ LET path == rt.files[rt.next].path
       IN  IF rt.fs[path] # "absent"
           THEN rt' = [rt EXCEPT !.next = @ + 1, !.settled = @ \cup {path},
                                 !.events = Append(@, Event("settled", path))]
           ELSE rt' = [rt EXCEPT !.next = @ + 1, !.in_flight = @ \cup {path},
                                 !.fs = create_dir_all(@, parent(path)),
                                 !.events = Append(@, Event("fetch", path))]
    /\ UNCHANGED faults

\* A request in flight comes back: the bytes are verified and written, or
\* the request or the verification fails, which is logged.
RtFileSettles(path) ==
    /\ rt.pc = "files" /\ path \in rt.in_flight
    /\ \/ /\ rt' = [rt EXCEPT !.in_flight = @ \ {path}, !.settled = @ \cup {path},
                               !.fs[path] = "good",
                               !.events = @ \o <<Event("write", path), Event("settled", path)>>]
          /\ UNCHANGED faults
       \/ /\ faults < MaxFaults
          /\ faults' = faults + 1
          /\ rt' = [rt EXCEPT !.in_flight = @ \ {path}, !.settled = @ \cup {path},
                               !.events = Append(@, Event("settled", path))]

\* The batch is said to be over as soon as every request has been sent.
RtFilesDone_early ==
    /\ rt.pc = "files" /\ rt.next > Len(rt.files)
    /\ rt' = [rt EXCEPT !.pc = "links", !.i = 1]
    /\ UNCHANGED faults

\* .collect().await of the batch and `.await?` of its caller: every file
\* has settled.
RtFilesDone ==
    /\ rt.pc = "files" /\ rt.next > Len(rt.files) /\ rt.in_flight = {}
    /\ rt' = [rt EXCEPT !.pc = "links", !.i = 1]
    /\ UNCHANGED faults

\* A loop over the links that goes on to the next link when canonicalize
\* fails.
RtLink_skips ==
    /\ rt.pc = "links" /\ rt.i <= Len(rt.links)
    /\ LET link == rt.links[rt.i]
       IN  IF rt.fs[link.path] # "absent" \/ rt.fs[link.target] = "absent"
           THEN rt' = [rt EXCEPT !.i = @ + 1]
           ELSE rt' = [rt EXCEPT !.i = @ + 1, !.fs[link.path] = "link",
                                 !.events = Append(@, Event("link", link.path))]
    /\ UNCHANGED faults

\* One iteration of `for link in links`: nothing if the link's path exists;
\* canonicalize fails if the target does not exist.
RtLink ==
    /\ rt.pc = "links" /\ rt.i <= Len(rt.links)
    /\ LET link == rt.links[rt.i]
       IN  IF rt.fs[link.path] # "absent"
           THEN rt' = [rt EXCEPT !.i = @ + 1]
           ELSE IF rt.fs[link.target] = "absent"
           THEN rt' = [rt EXCEPT !.pc = "done", !.ret = "SerializationFilesystemError"]
           ELSE rt' = [rt EXCEPT !.i = @ + 1, !.fs[link.path] = "link",
                                 !.events = Append(@, Event("link", link.path))]
    /\ UNCHANGED faults

\* Ok(java_path)
RtReturn ==
    /\ rt.pc = "links" /\ rt.i > Len(rt.links)
    /\ rt' = [rt EXCEPT !.pc = "done", !.ret = "Ok"]
    /\ UNCHANGED faults

RtUnchanged ==
    UNCHANGED <<ruleVars, rmVars, ciVars, argVars, lkVars, natVars, disk, next, in_progress, results,
                event, fetches, callbacks, returned>>

RtNext ==
    \/ RtRequestManifest /\ RtUnchanged
    \/ RtEntry /\ RtUnchanged
    \/ RtEntriesDone /\ RtUnchanged
    \/ RtStartFile /\ RtUnchanged
    \/ \E path \in RtPaths : RtFileSettles(path) /\ RtUnchanged
    \/ RtFilesDone /\ RtUnchanged
    \/ RtLink /\ RtUnchanged
    \/ RtReturn /\ RtUnchanged

SpecRuntime == RtInit /\ [][RtNext]_vars

(***************************************************************************)
(* Placeholder substitution and construct_arguments (resources.rs), and    *)
(* the older copies kept in resource_manager.rs.  A string is a sequence   *)
(* of symbols: the characters "$", "{", "}" and "-", and names and paths   *)
(* standing for runs of ASCII characters that hold none of "$" and "}".    *)
(* A result is [tag, val]: Some(val), None, or an abort (slice out of      *)
(* range) of the call.                                                     *)
(***************************************************************************)
SomeStr(s) == [tag |-> "Some", val |-> s]
NoneStr == [tag |-> "None", val |-> <<>>]
Abort == [tag |-> "panic", val |-> <<>>]

\* "${name}"
Tok(name) == <<"$", "{", name, "}">>

\* arg.chars().position(|c| c == ch): 1-based, 0 for None
position(arg, ch) ==
    IF \E i \in 1..Len(arg) : arg[i] = ch
    THEN CHOOSE i \in 1..Len(arg) : arg[i] = ch /\ \A j \in 1..(i - 1) : arg[j] # ch
    ELSE 0

\* get_arg_substring: &arg[start..=end] of the first '$' and the first '}';
\* the slice is empty when '}' is right before '$' and out of range when it
\* is further before.
get_arg_substring(arg) ==
    LET substr_start == position(arg, "$")
        substr_end == position(arg, "}")
    IN  IF substr_start = 0 \/ substr_end = 0 THEN NoneStr
        ELSE IF substr_start > substr_end + 1 THEN Abort
        ELSE SomeStr(SubSeq(arg, substr_start, substr_end))

\* str::replace(from, to): every non-overlapping match, left to right
\* (from is never empty where the code calls it with a matched token).
RECURSIVE replace(_, _, _)
replace(s, from, to) ==
    IF from = <<>> \/ Len(s) < Len(from) THEN s
    ELSE IF SubSeq(s, 1, Len(from)) = from
         THEN to \o replace(SubSeq(s, Len(from) + 1, Len(s)), from, to)
         ELSE <<Head(s)>> \o replace(Tail(s), from, to)

\* [&str]::join(sep)
RECURSIVE join(_, _)
join(strs, sep) ==
    IF strs = <<>> THEN <<>>
    ELSE IF Len(strs) = 1 THEN strs[1]
    ELSE strs[1] \o sep \o join(Tail(strs), sep)

LAUNCHER_NAME == <<"Autmc">>
LAUNCHER_VERSION == <<"1.0.0">>

\* LaunchArgumentPaths, mc_version and asset_index of one call.
LaunchContext(library_paths) ==
    [library_paths |-> library_paths,
     jar_path |-> <<"versions/1.20.1/client.jar">>,
     instance_path |-> <<"instances/i">>,
     natives_path |-> <<"instances/i/natives">>,
     asset_dir_path |-> <<"assets">>,
     version_id |-> <<"1.20.1">>,
     version_type |-> <<"release">>,
     asset_index |-> <<"5">>]

\* format!("{}:{}", classpath_strs.join(":"), jar_path)
classpath(c) ==
    join(c.library_paths, <<":">>) \o <<":">> \o c.jar_path

substitute_jvm_arguments(arg, c) ==
    LET substring == get_arg_substring(arg)
        substr == substring.val
    IN  IF substring.tag # "Some" THEN substring
        ELSE CASE substr = Tok("natives_directory") ->
                      SomeStr(replace(arg, substr, c.natives_path))
               [] substr = Tok("launcher_name") -> SomeStr(replace(arg, substr, LAUNCHER_NAME))
               [] substr = Tok("launcher_version") ->
                      SomeStr(replace(arg, substr, LAUNCHER_VERSION))
               [] substr = Tok("classpath") -> SomeStr(replace(arg, substr, classpath(c)))
               [] OTHER -> NoneStr

substitute_game_arguments(arg, c) ==
    LET substring == get_arg_substring(arg)
        substr == substring.val
    IN  IF substring.tag # "Some" THEN substring
        ELSE CASE substr = Tok("version_name") -> SomeStr(replace(arg, substr, c.version_id))
               [] substr = Tok("game_directory") ->
                      SomeStr(replace(arg, substr, c.instance_path))
               [] substr = Tok("assets_root") -> SomeStr(replace(arg, substr, c.asset_dir_path))
               [] substr = Tok("assets_index_name") ->
                      SomeStr(replace(arg, substr, c.asset_index))
               [] substr = Tok("user_type") -> SomeStr(replace(arg, substr, <<"mojang">>))
               [] substr = Tok("version_type") -> SomeStr(replace(arg, substr, c.version_type))
               [] OTHER -> NoneStr

ActiveAccount == [name |-> <<"Steve">>, uuid |-> <<"uuid-1">>,
                  minecraft_access_token |-> <<"token-1">>]

substitute_account_specific_arguments(arg, active_account) ==
    LET substring == get_arg_substring(arg)
        substr == substring.val
    IN  IF substring.tag # "Some" THEN substring
        ELSE CASE substr = Tok("auth_player_name") ->
                      SomeStr(replace(arg, substr, active_account.name))
               [] substr = Tok("auth_uuid") -> SomeStr(replace(arg, substr, active_account.uuid))
               [] substr = Tok("auth_access_token") ->
                      SomeStr(replace(arg, substr, active_account.minecraft_access_token))
               [] OTHER -> NoneStr

\* resource_manager.rs substitute_arg: the launcher tokens are replaced, the
\* classpath is quoted, every other known token yields the empty string.
RmBlankTokens ==
    { Tok(n) : n \in {"natives_directory", "auth_player_name", "version_name",
                      "game_directory", "assets_root", "assets_index_name", "auth_uuid",
                      "auth_access_token", "clientid", "auth_xuid", "user_type",
                      "version_type", "resolution_width", "resolution_height", "path"} }

substitute_arg(arg, c) ==
    LET substring == get_arg_substring(arg)
        substr == substring.val
        q == <<"\"">>
    IN  IF substring.tag # "Some" THEN substring
        ELSE CASE substr = Tok("launcher_name") -> SomeStr(replace(arg, substr, LAUNCHER_NAME))
               [] substr = Tok("launcher_version") ->
                      SomeStr(replace(arg, substr, LAUNCHER_VERSION))
               [] substr = Tok("classpath") ->
                      SomeStr(replace(arg, substr,
                          q \o join(c.library_paths, q \o <<":">> \o q) \o q \o <<":">>
                            \o q \o c.jar_path \o q))
               [] substr \in RmBlankTokens -> SomeStr(<<>>)
               [] OTHER -> NoneStr

\* match sub_arg { Some(argument) => argument, None => value.into() }
emitted(sub_arg, value) ==
    IF sub_arg.tag = "panic" THEN Abort
    ELSE IF sub_arg.tag = "Some" THEN SomeStr(sub_arg.val)
    ELSE SomeStr(value)

\* The argument strings the substitution functions are applied to.
ArgStrings ==
    { <<"-", "x">>,
      Tok("classpath"),
      <<"-">> \o Tok("natives_directory"),
      Tok("launcher_name") \o <<"-">> \o Tok("launcher_name"),
      Tok("version_name"),
      Tok("version_name") \o <<"-">> \o Tok("version_name"),
      Tok("version_name") \o Tok("auth_uuid"),
      Tok("auth_player_name"),
      Tok("auth_uuid"),
      Tok("auth_access_token"),
      Tok("resolution_width") \o <<"x">> \o Tok("auth_uuid"),
      Tok("unknown"),
      <<"$", "x", "}">>,
      <<"}", "$">>,
      <<"}", "x", "$">>,
      <<"x", "$">> }

LibraryPathLists == { <<>>, << <<"a">> >>, << <<"a">>, <<"b">> >> }

SubstInit ==
    /\ platform \in Platforms
    /\ rules = <<>> /\ ret = "none" /\ rm_ret = "none"
    /\ \E arg \in ArgStrings, libs \in LibraryPathLists :
          ar = [pc |-> "subst", arg |-> arg, context |-> LaunchContext(libs),
                fn |-> "none", result |-> NoneStr, out |-> SomeStr(arg), applied |-> <<>>]
    /\ BatchIdle /\ RmIdle /\ CiIdle /\ RtIdle /\ LkIdle /\ NatIdle

\* The substitution function named fn, called on arg.
call_substitution(fn, arg, c) ==
    CASE fn = "substitute_jvm_arguments" -> substitute_jvm_arguments(arg, c)
      [] fn = "substitute_game_arguments" -> substitute_game_arguments(arg, c)
      [] fn = "substitute_account_specific_arguments" ->
             substitute_account_specific_arguments(arg, ActiveAccount)
      [] OTHER -> substitute_arg(arg, c)

\* One call of a substitution function on the argument, or on what the
\* previous call left of it; the caller keeps the argument when the
\* function returns None.
Substitute(fn) ==
    /\ ar.pc = "subst" /\ ar.out.tag = "Some" /\ Len(ar.applied) < MaxCalls
    /\ LET arg == ar.out.val
           sub_arg == call_substitution(fn, arg, ar.context)
       IN  ar' = [ar EXCEPT !.arg = arg, !.fn = fn, !.result = sub_arg,
                            !.out = emitted(sub_arg, arg),
                            !.applied = Append(@, fn)]

SubstituteJvm == Substitute("substitute_jvm_arguments")

SubstituteGame == Substitute("substitute_game_arguments")

SubstituteAccount == Substitute("substitute_account_specific_arguments")

RmSubstituteArg == Substitute("substitute_arg")

SubstUnchanged == UNCHANGED <<ruleVars, batchVars, rmVars, ciVars, rtVars, lkVars, natVars>>

SubstNext ==
    \/ SubstituteJvm /\ SubstUnchanged
    \/ SubstituteGame /\ SubstUnchanged
    \/ SubstituteAccount /\ SubstUnchanged
    \/ RmSubstituteArg /\ SubstUnchanged

SpecSubst == SubstInit /\ [][SubstNext]_vars

(***************************************************************************)
(* construct_arguments (resources.rs), one loop iteration per step, the    *)
(* older construct_arguments of resource_manager.rs, and the account       *)
(* substitution applied to the constructed arguments at launch.            *)
(***************************************************************************)
\* Argument::Arg(value) and Argument::ConditionalArg { rules, values }
Arg(value) == [type |-> "Arg", rules |-> <<>>, values |-> <<value>>]
ConditionalArg(rs, values) == [type |-> "ConditionalArg", rules |-> rs, values |-> values]

JvmArguments ==
    { Arg(<<"-", "x">>),
      Arg(<<"-", "cp">> \o Tok("classpath")),
      ConditionalArg(<<OsRule("allow", "windows")>>,
                     << <<"-XX:HeapDumpPath">>, <<"-Dname=">> \o Tok("launcher_name") >>),
      Arg(<<"}", "x", "$">>) }

GameArguments ==
    { Arg(Tok("version_name")),
      Arg(Tok("auth_player_name")),
      Arg(Tok("resolution_width") \o <<"x">> \o Tok("auth_uuid")),
      ConditionalArg(<<[action |-> "allow", kind |-> "features", os |-> NoMap]>>,
                     << <<"--demo">> >>),
      ConditionalArg(<<OsRule("disallow", "windows")>>,
                     << <<"--dir">>, Tok("game_directory"), Tok("unknown") >>) }

\* version.logging.client: (argument, path of the downloaded configuration)
LoggingArguments ==
    { [argument |-> <<"-Dlog4j.configurationFile=">> \o Tok("path"),
       path |-> <<"assets/objects/lo/client.xml">>],
      [argument |-> <<"-Dlog4j2.formatMsgNoLookups=true">>,
       path |-> <<"assets/objects/lo/client.xml">>] }

MainClass == <<"net.minecraft.client.main.Main">>

substitute(kind, value, c) ==
    CASE kind = "jvm" -> substitute_jvm_arguments(value, c)
      [] kind = "game" -> substitute_game_arguments(value, c)
      [] OTHER -> substitute_arg(value, c)

\* `for value in values { ... push(...) }`: the strings pushed, or an abort.
push_values(values, kind, c) ==
    IF \E i \in 1..Len(values) : substitute(kind, values[i], c).tag = "panic"
    THEN Abort
    ELSE SomeStr([i \in 1..Len(values) |->
                     emitted(substitute(kind, values[i], c), values[i]).val])

\* An iteration that pushes the values whatever the rules say.
argument_pushes_unconditional(a, kind, c, plat) ==
    push_values(a.values, kind, c)

\* One iteration of the loop over arguments.jvm or arguments.game: what it
\* pushes to formatted_arguments.
argument_pushes(a, kind, c, plat) ==
    IF a.type = "Arg" THEN push_values(a.values, kind, c)
    ELSE LET m == IF kind = "rm" THEN rm_rules_match(a.rules, plat)
                  ELSE rules_match(a.rules, plat)
         IN  IF m = "panic" THEN Abort
             ELSE IF m = "false" THEN SomeStr(<<>>)
             ELSE push_values(a.values, kind, c)

\* No logging argument is pushed.
logging_pushes_nothing(logging) == SomeStr(<<>>)

\* if let Some(substr) = get_arg_substring(&logging.0) { push(logging.0.replace(..)) }
logging_pushes(logging) ==
    LET substring == get_arg_substring(logging.argument)
    IN  IF substring.tag = "panic" THEN Abort
        ELSE IF substring.tag = "Some"
             THEN SomeStr(<<replace(logging.argument, substring.val, logging.path)>>)
             ELSE SomeStr(<<>>)

\* resource_manager.rs construct_arguments: the JVM arguments only.
RECURSIVE rm_construct_arguments(_, _, _)
rm_construct_arguments(jvm, c, plat) ==
    IF jvm = <<>> THEN SomeStr(<<>>)
    ELSE LET h == argument_pushes(Head(jvm), "rm", c, plat)
             t == rm_construct_arguments(Tail(jvm), c, plat)
         IN  IF h.tag = "panic" \/ t.tag = "panic" THEN Abort
             ELSE SomeStr(h.val \o t.val)

ArgsInit ==
    /\ platform \in { p \in Platforms : p.os \in {"linux", "windows"} }
    /\ rules = <<>> /\ ret = "none" /\ rm_ret = "none"
    /\ \E jvm \in SeqUpTo(JvmArguments, MaxArgs), game \in SeqUpTo(GameArguments, MaxArgs),
          logging \in LoggingArguments :
          ar = [pc |-> "jvm", jvm |-> jvm, game |-> game, logging |-> logging,
                context |-> LaunchContext(<< <<"a">>, <<"b">> >>), i |-> 1,
                formatted_arguments |-> <<>>, rm_out |-> NoneStr, launch |-> NoneStr]
    /\ BatchIdle /\ RmIdle /\ CiIdle /\ RtIdle /\ LkIdle /\ NatIdle

\* The call aborts: nothing is returned.
ArgsAbort == ar' = [ar EXCEPT !.pc = "panic", !.formatted_arguments = <<>>]

ArgsPush(pushes, next_i) ==
    IF pushes.tag = "panic" THEN ArgsAbort
    ELSE ar' = [ar EXCEPT !.formatted_arguments = @ \o pushes.val, !.i = next_i]

\* for jvm_arg in arguments.jvm.iter()
ConstructJvmArg ==
    /\ ar.pc = "jvm" /\ ar.i <= Len(ar.jvm)
    /\ ArgsPush(argument_pushes(ar.jvm[ar.i], "jvm", ar.context, platform), ar.i + 1)

\* The logging configuration argument, then formatted_arguments.push(main_class)
ConstructLoggingAndMainClass ==
    /\ ar.pc = "jvm" /\ ar.i > Len(ar.jvm)
    /\ LET pushes == logging_pushes(ar.logging)
       IN  IF pushes.tag = "panic" THEN ArgsAbort
           ELSE ar' = [ar EXCEPT !.formatted_arguments = @ \o pushes.val \o <<MainClass>>,
                                 !.pc = "game", !.i = 1]

\* for game_arg in arguments.game.iter()
ConstructGameArg ==
    /\ ar.pc = "game" /\ ar.i <= Len(ar.game)
    /\ ArgsPush(argument_pushes(ar.game[ar.i], "game", ar.context, platform), ar.i + 1)

\* formatted_arguments is returned.
ConstructReturn ==
    /\ ar.pc = "game" /\ ar.i > Len(ar.game)
    /\ ar' = [ar EXCEPT !.pc = "done"]

\* resource_manager.rs construct_arguments on the same JVM arguments.
RmConstructArguments ==
    /\ ar.pc = "done"
    /\ ar' = [ar EXCEPT !.pc = "rm_done",
                        !.rm_out = rm_construct_arguments(ar.jvm, ar.context, platform)]

\* At launch substitute_account_specific_arguments is called once on every
\* constructed argument; an argument it returns None for is kept.
LaunchSubstitute ==
    /\ ar.pc = "rm_done"
    /\ LET out == ar.formatted_arguments
           sub(k) == substitute_account_specific_arguments(out[k], ActiveAccount)
       IN  ar' = [ar EXCEPT !.pc = "launched",
                           !.launch = IF \E k \in 1..Len(out) : sub(k).tag = "panic"
                                      THEN Abort
                                      ELSE SomeStr([k \in 1..Len(out) |->
                                                       emitted(sub(k), out[k]).val])]

ArgsUnchanged == UNCHANGED <<ruleVars, batchVars, rmVars, ciVars, rtVars, lkVars, natVars>>

ArgsNext ==
    \/ ConstructJvmArg /\ ArgsUnchanged
    \/ ConstructLoggingAndMainClass /\ ArgsUnchanged
    \/ ConstructGameArg /\ ArgsUnchanged
    \/ ConstructReturn /\ ArgsUnchanged
    \/ RmConstructArguments /\ ArgsUnchanged
    \/ LaunchSubstitute /\ ArgsUnchanged

SpecArgs == ArgsInit /\ [][ArgsNext]_vars

(***************************************************************************)
(* The lock on the shared ResourceManager (resource_manager.rs              *)
(* ResourceState, resources.rs create_instance).  ResourceState wraps the   *)
(* one ResourceManager in Arc<Mutex<..>>; create_instance takes the guard   *)
(* as its first await and the guard is dropped when the function returns.   *)
(* download_manifests takes &mut self, which a task can only obtain from    *)
(* the guard.  The tasks are two create_instance callers and one caller of  *)
(* download_manifests, interleaved at their await points.                   *)
(***************************************************************************)
Creators == {"create_instance_1", "create_instance_2"}

Refresher == "download_manifests"

Tasks == Creators \cup {Refresher}

\* The awaited stages of create_instance after the lock, in program order.
CreateSteps ==
    << "download_vanilla_version", "download_libraries", "download_game_jar",
       "download_java_version", "download_logging_configurations",
       "download_assets", "add_instance", "extract_natives" >>

\* The awaits of download_manifests: send() and json().
RefreshSteps == << "send", "json" >>

\* ResourceState::new: nobody holds the lock and vanilla_manifest is None
\* (generation 0; every store of a fetched manifest is a new generation).
LkInit ==
    /\ lk = [pc |-> "run", holder |-> "none",
             at |-> [t \in Tasks |-> "idle"], manifest |-> 0]
    /\ RulesIdle /\ BatchIdle /\ RmIdle /\ CiIdle /\ RtIdle /\ ArgIdle /\ NatIdle

\* A task is invoked and reaches `.lock().await`.
LkCall(t) ==
    /\ lk.at[t] = "idle"
    /\ t = Refresher => lk.manifest < MaxRefreshes
    /\ lk' = [lk EXCEPT !.at[t] = "lock"]

\* A lock() that is granted although another task holds the guard.
LkAcquire_unguarded(t) ==
    /\ t \in Creators /\ lk.at[t] = "lock"
    /\ lk' = [lk EXCEPT !.holder = t, !.at[t] = CreateSteps[1]]

\* let resource_manager = resource_state.0.lock().await;
LkAcquire(t) ==
    /\ t \in Creators /\ lk.at[t] = "lock"
    /\ lk.holder = "none"
    /\ lk' = [lk EXCEPT !.holder = t, !.at[t] = CreateSteps[1]]

\* The caller of download_manifests obtains the guard it needs for &mut self.
LkRefreshAcquire ==
    /\ lk.at[Refresher] = "lock"
    /\ lk.holder = "none"
    /\ lk' = [lk EXCEPT !.holder = Refresher, !.at[Refresher] = RefreshSteps[1]]

\* One awaited stage of create_instance ends: with Ok the next stage begins;
\* with an error, or after the last stage, the function returns and the
\* guard is dropped.
LkCreateStep(t) ==
    /\ t \in Creators
    /\ \E k \in 1..Len(CreateSteps) :
          /\ lk.at[t] = CreateSteps[k]
          /\ \/ /\ k < Len(CreateSteps)
                /\ lk' = [lk EXCEPT !.at[t] = CreateSteps[k + 1]]
             \/ lk' = [lk EXCEPT !.at[t] = "idle",
                                 !.holder = IF @ = t THEN "none" ELSE @]

\* client.get(..).send().await?: the request fails and the call returns, or
\* the response arrives.
LkRefreshSend ==
    /\ lk.at[Refresher] = "send"
    /\ \/ lk' = [lk EXCEPT !.at[Refresher] = "json"]
       \/ lk' = [lk EXCEPT !.at[Refresher] = "idle",
                           !.holder = IF @ = Refresher THEN "none" ELSE @]

\* response.json().await?; self.vanilla_manifest = Some(manifest); Ok(())
LkRefreshStore ==
    /\ lk.at[Refresher] = "json"
    /\ \/ lk' = [lk EXCEPT !.at[Refresher] = "idle", !.manifest = @ + 1,
                           !.holder = IF @ = Refresher THEN "none" ELSE @]
       \/ lk' = [lk EXCEPT !.at[Refresher] = "idle",
                           !.holder = IF @ = Refresher THEN "none" ELSE @]

LkUnchanged == UNCHANGED <<ruleVars, batchVars, rmVars, ciVars, rtVars, argVars, natVars>>

LkNext ==
    \/ \E t \in Tasks : LkCall(t) /\ LkUnchanged
    \/ \E t \in Creators : LkAcquire(t) /\ LkUnchanged
    \/ LkRefreshAcquire /\ LkUnchanged
    \/ \E t \in Creators : LkCreateStep(t) /\ LkUnchanged
    \/ LkRefreshSend /\ LkUnchanged
    \/ LkRefreshStore /\ LkUnchanged

SpecLock == LkInit /\ [][LkNext]_vars

(***************************************************************************)
(* extract_natives (resources.rs).  A path inside an archive is the         *)
(* sequence of its components; the natives directory is the empty path.     *)
(* An archive entry is [kind, path]: kind is "file", "dir" (is_dir()),      *)
(* "unreadable" (by_index(i) is Err) or "unsafe" (a readable file whose     *)
(* enclosed_name() is None, such as ../evil.so).  A classifier is [name,    *)
(* jar, exclude, entries]: jar is "zip", "absent" (File::open fails) or     *)
(* "corrupt" (ZipArchive::new fails); exclude is the optional               *)
(* extraction_rule's list of excluded paths.                                *)
(***************************************************************************)
Entry(kind, path) == [kind |-> kind, path |-> path]

NativeClassifiers ==
    { [name |-> "lwjgl-natives", jar |-> "zip", exclude |-> Some(<< <<"META-INF">> >>),
       entries |-> << Entry("dir", <<"META-INF">>),
                      Entry("file", <<"META-INF", "MANIFEST.MF">>),
                      Entry("file", <<"liblwjgl.so">>) >>],
      [name |-> "jinput-natives", jar |-> "zip", exclude |-> None,
       entries |-> << Entry("file", <<"META-INF", "MANIFEST.MF">>),
                      Entry("unreadable", <<"libjinput-broken.so">>),
                      Entry("file", <<"linux", "libjinput.so">>) >>],
      [name |-> "openal-natives", jar |-> "zip",
       exclude |-> Some(<< <<"META-INF">>, <<"docs", "api">> >>),
       entries |-> << Entry("unsafe", <<"..", "evil.so">>),
                      Entry("file", <<"docs", "api", "index.html">>),
                      Entry("file", <<"docs", "README">>) >>],
      [name |-> "text2speech-natives", jar |-> "absent", exclude |-> None,
       entries |-> <<>>],
      [name |-> "glfw-natives", jar |-> "corrupt", exclude |-> None,
       entries |-> <<>>] }

NativePaths ==
    UNION { { cl.entries[i].path : i \in 1..Len(cl.entries) } : cl \in NativeClassifiers }

\* Path::starts_with: base is a prefix of path, component by component.
starts_with(path, base) ==
    /\ Len(base) <= Len(path)
    /\ \A k \in 1..Len(base) : path[k] = base[k]

\* An extraction that excludes nothing.
excluded_never(classifier, zip_path) == FALSE

\* if let Some(extraction_rule) = &classifier.extraction_rule {
\*     for exclusion in &extraction_rule.exclude { if zip_path.starts_with(exclusion) ..
excluded(classifier, zip_path) ==
    /\ classifier.exclude # None
    /\ \E k \in 1..Len(classifier.exclude[1]) :
          starts_with(zip_path, classifier.exclude[1][k])

\* The directories fs::create_dir_all(path.parent()) makes sure of: the
\* parent and its ancestors up to the natives directory.
parents(path) == { SubSeq(path, 1, k) : k \in 0..(Len(path) - 1) }

\* The content of a file under natives: none, or the entry it was copied
\* from and whether the copy was complete.
NoFile == <<>>
CopyOf(c, i, complete) == <<[classifier |-> c, entry |-> i, complete |-> complete]>>

NatInit ==
    /\ \E cs \in SeqUpTo(NativeClassifiers, MaxClassifiers), ds \in {{}, {<<>>}} :
          nat = [pc |-> "open", classifiers |-> cs, c |-> 1, i |-> 1,
                 fs |-> [p \in NativePaths |-> NoFile], dirs |-> ds,
                 opened |-> <<>>, copied |-> {}, ret |-> "none"]
    /\ RulesIdle /\ BatchIdle /\ RmIdle /\ CiIdle /\ RtIdle /\ ArgIdle /\ LkIdle

\* A loop over the classifiers that goes on to the next classifier when the
\* archive cannot be opened.
NatOpen_skips ==
    /\ nat.pc = "open" /\ nat.c <= Len(nat.classifiers)
    /\ IF nat.classifiers[nat.c].jar # "zip"
       THEN nat' = [nat EXCEPT !.c = @ + 1]
       ELSE nat' = [nat EXCEPT !.pc = "entries", !.i = 1, !.opened = Append(@, nat.c)]

\* let jar_file = File::open(classifier_path)?;
\* let mut archive = ZipArchive::new(jar_file)?;
NatOpen ==
    /\ nat.pc = "open" /\ nat.c <= Len(nat.classifiers)
    /\ LET classifier == nat.classifiers[nat.c]
       IN  CASE classifier.jar = "absent" ->
                  nat' = [nat EXCEPT !.pc = "done", !.ret = "SerializationFilesystemError"]
             [] classifier.jar = "corrupt" ->
                  nat' = [nat EXCEPT !.pc = "done", !.ret = "ZipError"]
             [] OTHER ->
                  nat' = [nat EXCEPT !.pc = "entries", !.i = 1,
                                     !.opened = Append(@, nat.c)]

\* One iteration of `'zip: for i in 0..archive.len()`.  An entry that cannot
\* be read, a directory, an entry without an enclosed name and an excluded
\* entry are passed over; any other entry is copied to natives/<zip_path>,
\* and create_dir_all, File::create and io::copy may each fail.
NatEntry ==
    /\ nat.pc = "entries" /\ nat.i <= Len(nat.classifiers[nat.c].entries)
    /\ LET classifier == nat.classifiers[nat.c]
           file == classifier.entries[nat.i]
           path == file.path
       IN  IF \/ file.kind \in {"unreadable", "dir", "unsafe"}
              \/ excluded(classifier, path)
           THEN nat' = [nat EXCEPT !.i = @ + 1]
           ELSE \/ nat' = [nat EXCEPT !.i = @ + 1,
                                      !.dirs = @ \cup parents(path),
                                      !.fs[path] = CopyOf(nat.c, nat.i, TRUE),
                                      !.copied = @ \cup {<<nat.c, nat.i>>}]
                \/ /\ ~(parents(path) \subseteq nat.dirs)
                   /\ nat' = [nat EXCEPT !.pc = "done",
                                         !.ret = "SerializationFilesystemError"]
                \/ nat' = [nat EXCEPT !.pc = "done",
                                      !.ret = "SerializationFilesystemError",
                                      !.dirs = @ \cup parents(path)]
                \/ nat' = [nat EXCEPT !.pc = "done",
                                      !.ret = "SerializationFilesystemError",
                                      !.dirs = @ \cup parents(path),
                                      !.fs[path] = CopyOf(nat.c, nat.i, FALSE)]

\* The loop over the entries has ended: the next classifier.
NatArchiveDone ==
    /\ nat.pc = "entries" /\ nat.i > Len(nat.classifiers[nat.c].entries)
    /\ nat' = [nat EXCEPT !.pc = "open", !.c = @ + 1]

\* Ok(())
NatReturn ==
    /\ nat.pc = "open" /\ nat.c > Len(nat.classifiers)
    /\ nat' = [nat EXCEPT !.pc = "done", !.ret = "Ok"]

NatUnchanged == UNCHANGED <<ruleVars, batchVars, rmVars, ciVars, rtVars, argVars, lkVars>>

NatNext ==
    \/ NatOpen /\ NatUnchanged
    \/ NatEntry /\ NatUnchanged
    \/ NatArchiveDone /\ NatUnchanged
    \/ NatReturn /\ NatUnchanged

SpecNatives == NatInit /\ [][NatNext]_vars

(***************************************************************************)
(* Claims about placeholder substitution.                                  *)
(***************************************************************************)
\* The path-list separator of the platform.
PathListSeparator == IF platform.os = "windows" THEN <<";">> ELSE <<":">>

\* C17: substitute_jvm_arguments turns "${classpath}" into the library
\* paths, in order, and the game jar path last, joined by the path-list
\* separator of the platform (a<sep>b<sep>j for libraries [a, b]).
C17_ClasspathJoinedByPlatformSeparator ==
    ( /\ ar.applied = <<"substitute_jvm_arguments">>
      /\ ar.arg = Tok("classpath") ) =>
        ar.result = SomeStr(join(Append(ar.context.library_paths, ar.context.jar_path),
                                 PathListSeparator))

\* The string holds "$" directly followed by "{".
HasPlaceholderStart(s) == \E i \in 1..(Len(s) - 1) : s[i] = "$" /\ s[i + 1] = "{"

\* C18: on an argument without "${" every substitution function returns
\* normally and the argument is emitted unchanged.
C18_NoPlaceholderIsUnchanged ==
    ( /\ ar.applied # <<>>
      /\ ar.fn # "substitute_arg"
      /\ ~HasPlaceholderStart(ar.arg) ) =>
        ar.out = SomeStr(ar.arg)

\* C19: one call replaces the first token only: whatever follows the first
\* "}" of the argument, a repeat of the token included, is the tail of the
\* result, unchanged.
C19_OnlyFirstTokenIsReplaced ==
    ( /\ ar.applied # <<>>
      /\ ar.fn # "substitute_arg"
      /\ ar.result.tag = "Some" ) =>
        LET rest == SubSeq(ar.arg, position(ar.arg, "}") + 1, Len(ar.arg))
            res == ar.result.val
        IN  /\ Len(res) >= Len(rest)
            /\ SubSeq(res, Len(res) - Len(rest) + 1, Len(res)) = rest

(***************************************************************************)
(* Claims about construct_arguments.                                       *)
(***************************************************************************)
\* construct_arguments has returned its list.
Constructed == ar.pc \in {"done", "rm_done", "launched"}

\* The substituted arguments of a whole list, in order.
RECURSIVE Substituted(_, _)
Substituted(args, kind) ==
    IF args = <<>> THEN <<>>
    ELSE argument_pushes(Head(args), kind, ar.context, platform).val
         \o Substituted(Tail(args), kind)

\* The logging argument: the template with its placeholder replaced by the
\* path of the logging configuration, if the template has a placeholder.
LoggingArgument ==
    IF HasPlaceholderStart(ar.logging.argument)
    THEN << replace(ar.logging.argument,
                    SubSeq(ar.logging.argument, position(ar.logging.argument, "$"),
                           position(ar.logging.argument, "}")),
                    ar.logging.path) >>
    ELSE <<>>

Occurs(sub, s) ==
    \E k \in 0..(Len(s) - Len(sub)) : SubSeq(s, k + 1, k + Len(sub)) = sub

\* The group's values are all in the output, contiguous and in order, if
\* its rules are accepted; none of them is in the output otherwise.
AllOrNone(group, kind, accepted, output) ==
    LET image == push_values(group.values, kind, ar.context).val
    IN  IF accepted THEN Occurs(image, output)
        ELSE \A k \in 1..Len(image) : \A n \in 1..Len(output) : output[n] # image[k]

ConditionalArgs(args) ==
    { args[n] : n \in { k \in 1..Len(args) : args[k].type = "ConditionalArg" } }

\* C16: construct_arguments emits all values of a ConditionalArg,
\* contiguously and in order, when rules_match accepts its rules, and none
\* of them when it does not.
C16_ConditionalGroupAllOrNone ==
    /\ Constructed =>
          /\ \A g \in ConditionalArgs(ar.jvm) :
                AllOrNone(g, "jvm", rules_match(g.rules, platform) = "true",
                          ar.formatted_arguments)
          /\ \A g \in ConditionalArgs(ar.game) :
                AllOrNone(g, "game", rules_match(g.rules, platform) = "true",
                          ar.formatted_arguments)
    /\ (ar.pc \in {"rm_done", "launched"} /\ ar.rm_out.tag = "Some") =>
          \A g \in ConditionalArgs(ar.jvm) :
              AllOrNone(g, "rm", rm_rules_match(g.rules, platform) = "true", ar.rm_out.val)

\* On Windows, arguments were constructed from a JVM list with the group
\* allowed on Windows and a game list with the group disallowed there.
C16_Witness ==
    /\ Constructed
    /\ platform.os = "windows"
    /\ \E g \in ConditionalArgs(ar.jvm) : Len(g.values) = 2
    /\ \E g \in ConditionalArgs(ar.game) : Len(g.values) = 3
    /\ \E n \in 1..Len(ar.formatted_arguments) :
          ar.formatted_arguments[n] = <<"-XX:HeapDumpPath">>

AccountValues ==
    [auth_player_name |-> ActiveAccount.name, auth_uuid |-> ActiveAccount.uuid,
     auth_access_token |-> ActiveAccount.minecraft_access_token]

\* C20: construct_arguments leaves every account token and unrecognized
\* token of its arguments in its output, and the later call of
\* substitute_account_specific_arguments on an argument holding an account
\* token replaces the token by the account's value.
C20_AccountTokensAreBoundLate ==
    (ar.pc = "launched" /\ ar.launch.tag = "Some") =>
        LET out == ar.formatted_arguments
        IN  /\ \A a \in { ar.game[n] : n \in { k \in 1..Len(ar.game) : ar.game[k].type = "Arg" } } :
                  \A t \in DOMAIN AccountValues \cup {"unknown"} :
                      Occurs(Tok(t), a.values[1]) =>
                          \E k \in 1..Len(out) : Occurs(Tok(t), out[k])
            /\ \A k \in 1..Len(out) : \A t \in DOMAIN AccountValues :
                  Occurs(Tok(t), out[k]) =>
                      ar.launch.val[k] = replace(out[k], Tok(t), AccountValues[t])

(***************************************************************************)
(* Claims about the runtime materialization.                               *)
(***************************************************************************)
EntryPaths(kind) ==
    { rt.manifest[i].path : i \in { n \in 1..Len(rt.manifest) : rt.manifest[n].kind = kind } }

Happened(evs) == \E k \in 1..Len(rt.events) : rt.events[k].ev \in evs

CurrentLink == rt.links[rt.i]

Dangling(link) == rt.fs[link.path] = "absent" /\ rt.fs[link.target] = "absent"

\* C23: when the loop over the links reaches a link whose path is free and
\* whose target does not exist, the next step ends the call with the
\* filesystem error of canonicalize, the filesystem (the links made so far)
\* stays as it is, and once the call has ended nothing more is done, so no
\* later link is attempted.
C23_DanglingLinkEndsTheCall ==
    [][ /\ ( /\ rt.pc = "links" /\ rt.i <= Len(rt.links)
             /\ Dangling(CurrentLink) ) =>
              /\ rt'.pc = "done"
              /\ rt'.ret = "SerializationFilesystemError"
              /\ rt'.fs = rt.fs
              /\ rt'.events = rt.events
        /\ rt.pc = "done" => rt' = rt ]_vars

\* The call has ended with the error at the second of three links: the first
\* link is in place and the third, whose target exists, was not made.
C23_Witness ==
    /\ rt.pc = "done" /\ rt.ret = "SerializationFilesystemError"
    /\ rt.links = <<Link("bin/javac", "bin/java"), Link("lib/libjsig.so", "lib/libjvm.so"),
                    Link("bin/keytool", "bin/java")>>
    /\ rt.i = 2
    /\ rt.fs["bin/javac"] = "link"
    /\ rt.fs["bin/java"] = "good"
    /\ rt.fs["bin/keytool"] = "absent"

Accepted(lib) == lib.rules = None \/ rules_match(lib.rules[1], platform) = "true"

PosixLibrary ==
    [name |-> "posix", rules |-> Some(<<OsRule("disallow", "windows")>>), natives |-> FALSE]

Listed(lib, libs) == \E i \in 1..Len(libs) : libs[i] = lib

\* C3: the libraries create_instance passes on to download are exactly the
\* libraries of the manifest that have no rule set or whose rule set
\* rules_match accepts, in manifest order; a library with the rule list
\* [disallow, os name = windows] is passed on on a Linux host and is not
\* on a Windows host.
C3_DownloadedLibrariesAreTheAcceptedOnes ==
    ci.passed # None =>
        /\ ci.passed[1] = SelectSeq(ci.version_libraries, Accepted)
        /\ Listed(PosixLibrary, ci.version_libraries) =>
              /\ platform.os = "linux" => Listed(PosixLibrary, ci.passed[1])
              /\ platform.os = "windows" => ~Listed(PosixLibrary, ci.passed[1])

\* C3's case: on a Windows host a manifest listing the [disallow, windows]
\* library and a library without rules has had its libraries downloaded.
C3_Witness ==
    /\ platform.os = "windows"
    /\ Len(ci.version_libraries) = 2
    /\ ci.version_libraries[1] = PosixLibrary
    /\ ci.version_libraries[2].rules = None
    /\ ci.passed = Some(<<ci.version_libraries[2]>>)
    /\ library_path(ci.version_libraries[2]) \in DOMAIN cache
    /\ cache[library_path(ci.version_libraries[2])] = "good"

\* C5: in a create_instance call that follows a successful call for the same
\* version id, no network request is issued for any artifact.
C5_RerunIssuesNoDownloads ==
    (ci.pc # "idle" /\ ci.prev = "Ok" /\ ci.prev_selected = ci.selected)
        => ci.fetched = {}

\* C21: when create_instance returns an error, the instance store holds no
\* configuration that it did not hold before the call.
C21_FailedCreationAddsNoInstance ==
    (ci.pc = "done" /\ ci.ret # "Ok") => ci.store = ci.store_before

(***************************************************************************)
(* Claims about extract_natives.                                           *)
(***************************************************************************)
\* The path begins with the prefix, component by component.
BeginsWith(path, prefix) ==
    Len(prefix) <= Len(path) /\ SubSeq(path, 1, Len(prefix)) = prefix

\* The entry's path begins with an exclusion prefix configured for its
\* classifier.
UnderExclusion(classifier, path) ==
    /\ classifier.exclude # None
    /\ \E k \in DOMAIN classifier.exclude[1] : BeginsWith(path, classifier.exclude[1][k])

EntryOf(c, i) == nat.classifiers[c].entries[i]

\* Every file under natives is the copy, at natives/<entry path>, of an
\* entry that is neither a directory nor under an exclusion of its classifier.
NoExcludedOrDirectoryCopy ==
    \A p \in NativePaths :
        nat.fs[p] # NoFile =>
            LET src == nat.fs[p][1]
            IN  /\ EntryOf(src.classifier, src.entry).path = p
                /\ EntryOf(src.classifier, src.entry).kind # "dir"
                /\ ~UnderExclusion(nat.classifiers[src.classifier], p)

\* After an Ok return every entry of the given kinds that is not under an
\* exclusion of its classifier has been copied.
AllCopied(kinds) ==
    nat.ret = "Ok" =>
        \A c \in 1..Len(nat.classifiers) :
            \A i \in 1..Len(nat.classifiers[c].entries) :
                ( /\ EntryOf(c, i).kind \in kinds
                  /\ ~UnderExclusion(nat.classifiers[c], EntryOf(c, i).path) ) =>
                    <<c, i>> \in nat.copied

C30_ExtractionIsFailFast ==
    /\ [](\A k \in 1..Len(nat.classifiers) :
            nat.classifiers[k].jar # "zip" =>
                /\ nat.c <= k
                /\ \A j \in 1..Len(nat.opened) : nat.opened[j] < k
                /\ nat.ret # "Ok")
    /\ [][ /\ (nat.pc # "done" /\ nat'.pc = "done" /\ nat'.ret # "Ok") =>
                /\ nat'.c = nat.c
                /\ nat'.opened = nat.opened
                /\ nat'.copied = nat.copied
                /\ \A p \in NativePaths :
                      /\ nat.fs[p] # NoFile => nat'.fs[p] # NoFile
                      /\ (nat.pc = "entries" /\ p # EntryOf(nat.c, nat.i).path) =>
                            nat'.fs[p] = nat.fs[p]
                      /\ nat.pc = "open" => nat'.fs[p] = nat.fs[p]
           /\ nat.pc = "done" => nat' = nat ]_vars

\* The copy of the third entry of the second of three classifiers has
\* failed: the files of the first classifier and of the second's first entry
\* are on disk, the failing entry's file is partial, and the third
\* classifier was not opened.
C30_Witness ==
    /\ nat.pc = "done" /\ nat.ret = "SerializationFilesystemError"
    /\ Len(nat.classifiers) = 3
    /\ nat.classifiers[3].name = "openal-natives"
    /\ nat.opened = <<1, 2>>
    /\ nat.fs[<<"liblwjgl.so">>] = CopyOf(1, 3, TRUE)
    /\ nat.fs[<<"META-INF", "MANIFEST.MF">>] = CopyOf(2, 1, TRUE)
    /\ nat.fs[<<"linux", "libjinput.so">>] = CopyOf(2, 3, FALSE)
    /\ nat.fs[<<"docs", "README">>] = NoFile

(***************************************************************************)
(* Claims about the lock on the shared ResourceManager.                    *)
(***************************************************************************)
\* A create_instance sequence is between its first and its last step.
InSequence(t) == \E k \in 1..Len(CreateSteps) : lk.at[t] = CreateSteps[k]

\* C24: under any interleaving of the callers, at most one create_instance
\* sequence is between its first and its last step, and no step taken while
\* a create_instance sequence is in progress changes the version manifest.
C24_LockSerializesCreationAndRefresh ==
    /\ [](Cardinality({ t \in Creators : InSequence(t) }) <= 1)
    /\ [][ (\E t \in Creators : InSequence(t)) => lk'.manifest = lk.manifest ]_vars

\* After a refresh has stored a manifest, one create_instance sequence is at
\* its sixth stage while the other caller and a new refresh wait for the lock.
C24_Witness ==
    /\ lk.at["create_instance_1"] = "download_assets"
    /\ lk.at["create_instance_2"] = "lock"
    /\ lk.at[Refresher] = "lock"
    /\ lk.manifest = 1

(***************************************************************************)
(* Claims about the ResourceManager.                                       *)
(***************************************************************************)
\* C10: download_vanilla_version with the manifest loaded and a version id
\* that is no key of it returns VersionRetrievalError, issues no network
\* request and writes no file.
C10_UnknownVersionIsNotFound ==
    ( /\ call.op = "download_vanilla_version"
      /\ call.manifest # None
      /\ call.version_id \notin call.manifest[1] ) =>
        /\ call.ret = "VersionRetrievalError"
        /\ call.requests = 0
        /\ call.wrote = {}
        /\ cache = call.before

\* "9.9.9" was requested with a manifest loaded that has other versions.
C10_Witness ==
    /\ call.op = "download_vanilla_version"
    /\ call.version_id = "9.9.9"
    /\ call.manifest = Some({"1.20.1"})
    /\ call.ret = "VersionRetrievalError"

\* C11: download_vanilla_version called while no manifest is loaded returns
\* ResourceError for every version id, issues no network request, writes no
\* file and leaves the manifest unloaded.
C11_UnloadedManifestIsResourceError ==
    (call.op = "download_vanilla_version" /\ call.manifest = None) =>
        /\ call.ret = "ResourceError"
        /\ call.requests = 0
        /\ call.wrote = {}
        /\ cache = call.before
        /\ vanilla_manifest = None

\* A version id the remote manifest lists was requested before any
\* download_manifests succeeded.
C11_Witness ==
    /\ call.op = "download_vanilla_version"
    /\ call.manifest = None
    /\ call.version_id = "1.20.1"
    /\ call.ret = "ResourceError"

\* C12: when the bytes fetched for the per-version manifest do not hash to
\* the value the manifest declares, download_vanilla_version returns
\* InvalidFileDownload, writes no file and issues no second request.
C12_CorruptVersionBytesAreRejected ==
    (call.op = "download_vanilla_version" /\ call.received = "corrupt") =>
        /\ call.ret = "InvalidFileDownload"
        /\ call.wrote = {}
        /\ cache = call.before
        /\ call.requests = 1

\* C13: a per-version manifest that download_vanilla_version fetched is
\* persisted at versions/<id>.json, the path its cache check reads, and a
\* request for an id whose persisted manifest is intact issues no request.
C13_PersistedWhereTheCacheCheckReads ==
    (call.op = "download_vanilla_version" /\ call.manifest # None
        /\ call.version_id \in call.manifest[1]) =>
        /\ (call.requests > 0 /\ call.ret = "Ok") =>
               call.wrote = {get_version_file_path(call.version_id)}
        /\ call.before[serialize_version_path(call.version_id)] = "good" =>
               call.requests = 0

(***************************************************************************)
(* Claims about the download batch.                                        *)
(***************************************************************************)
\* The items whose fetch has started and which have not settled.
InFlight == { i \in Items : fetches[i] > 0 /\ results[i] = "none" }

\* C4: an item whose destination path exists when the item is processed is
\* settled by that step with no network fetch and no call of the callback,
\* the files are left as they are, and a settled item is never fetched or
\* handed to the callback afterwards.
C4_ExistingPathIsNotFetched ==
    [][ \A i \in Items :
          /\ (next = i /\ next' = i + 1 /\ disk[PathOf(i)] # "absent") =>
                /\ fetches'[i] = 0 /\ callbacks'[i] = 0
                /\ disk' = disk
                /\ results'[i] # "none"
          /\ (results[i] # "none") =>
                (fetches'[i] = fetches[i] /\ callbacks'[i] = callbacks[i]) ]_vars

\* An item was skipped because its file existed, beside an item that was
\* fetched and written, in a batch that has returned.
C4_Witness ==
    /\ returned = "Ok"
    /\ \E i \in Items : event[i] = "skipped" /\ fetches[i] = 0 /\ disk[PathOf(i)] # "absent"
    /\ \E j \in Items : event[j] = "written" /\ fetches[j] = 1

\* C6: in every reachable state of a batch at most 8 items have a fetch
\* that has started and not settled.
C6_AtMostEightInFlight == Cardinality(InFlight) <= 8

\* Eight fetches are in flight while a further item waits in the stream.
C6_Witness == Cardinality(InFlight) = 8 /\ next <= NumItems

\* C7: the batch returns only after every item has settled, and, every
\* fetch eventually settling, it eventually returns.
C7_ReturnsAfterAllSettled ==
    /\ [](returned # "none" => \A i \in Items : results[i] # "none")
    /\ <>(returned # "none")

\* The batch has returned with every item settled, one of them as a
\* failure.
C7_Witness ==
    /\ returned # "none"
    /\ \A i \in Items : results[i] # "none"
    /\ \E i \in Items : results[i] \in {"RequestError", "FileWriteError"}

\* C8: whatever happens to single items, the batch returns success and
\* every item of the batch has been attempted by then.
C8_ItemFailureIsIsolated ==
    returned # "none" =>
        /\ returned = "Ok"
        /\ \A i \in Items : event[i] # "pending"
        /\ \A i \in Items : event[i] \in {"skipped", "direrr"} \/ fetches[i] = 1

\* The batch has returned success with an item that failed (network,
\* directory creation or callback) and a later item that was fetched and
\* written.
C8_Witness ==
    /\ returned = "Ok"
    /\ \E i \in Items :
          /\ event[i] \in {"neterr", "direrr", "badhash", "createerr", "writeerr"}
          /\ \E j \in Items : j # i /\ event[j] = "written"

\* C9: an item whose callback reported a hash mismatch settles with the
\* outcome InvalidFileHashError, which differs from the outcome of a
\* successful item and of an item whose fetch failed.
C9_HashMismatchIsAnExplicitOutcome ==
    \A i \in Items : event[i] = "badhash" => results[i] = "InvalidFileHashError"

\* C22: a file whose content does not match its expected hash is fetched
\* again by the run that finds it: no item of a batch is skipped while the
\* file at its path has the wrong content.
C22_CorruptFileIsFetchedAgain ==
    \A i \in Items : event[i] = "skipped" => disk[PathOf(i)] = "good"

(***************************************************************************)
(* Rule evaluation on a rule list and a platform drawn from the bounded    *)
(* sets above.                                                             *)
(***************************************************************************)
RulesInit ==
    /\ rules \in SeqUpTo(Rules, MaxRules)
    /\ platform \in Platforms
    /\ ret = "none" /\ rm_ret = "none"
    /\ BatchIdle /\ RmIdle /\ CiIdle /\ RtIdle /\ ArgIdle /\ LkIdle /\ NatIdle

\* resources.rs rules_match(&rules)
RulesMatch ==
    /\ ret = "none"
    /\ ret' = rules_match(rules, platform)
    /\ UNCHANGED <<rules, platform, rm_ret>>

\* resource_manager.rs rules_match(&rules); its Rule has no optional predicate.
RmRulesMatch ==
    /\ rm_ret = "none"
    /\ \A i \in 1..Len(rules) : rules[i].kind # "none"
    /\ rm_ret' = rm_rules_match(rules, platform)
    /\ UNCHANGED <<rules, platform, ret>>

RulesNext ==
    \/ RulesMatch /\ UNCHANGED <<batchVars, rmVars, ciVars, rtVars, argVars, lkVars, natVars>>
    \/ RmRulesMatch /\ UNCHANGED <<batchVars, rmVars, ciVars, rtVars, argVars, lkVars, natVars>>

SpecRules == RulesInit /\ [][RulesNext]_vars

(***************************************************************************)
(* Claims about rule evaluation.                                           *)
(***************************************************************************)
\* A rule list inside the manifest schema: actions allow/disallow, OS keys
\* name/arch/version.
InSchema(rs) ==
    \A i \in 1..Len(rs) :
        /\ rs[i].action \in {"allow", "disallow"}
        /\ DOMAIN rs[i].os \subseteq {"name", "arch", "version"}

\* Whether the predicate of a rule matches the platform: a rule without a
\* predicate restricts nothing, a feature predicate is non-matching, an OS
\* predicate is matched as rule_matches computes its flag.
PredicateMatches(rule, plat) ==
    CASE rule.kind = "none"     -> TRUE
      [] rule.kind = "features" -> FALSE
      [] OTHER                  -> os_rules_loop(rule.os, plat) = "true"

RulePasses(rule, plat) ==
    \/ rule.action = "allow" /\ PredicateMatches(rule, plat)
    \/ rule.action = "disallow" /\ ~PredicateMatches(rule, plat)

AllPass(rs, plat) == \A i \in 1..Len(rs) : RulePasses(rs[i], plat)

\* C1: for every non-empty rule list of the schema and every platform,
\* rules_match returns true if and only if every rule of the list passes,
\* a rule passing exactly when it allows and its predicate matches or it
\* disallows and its predicate does not match.
C1_RulesMatchIffEveryRulePasses ==
    (ret # "none" /\ rules # <<>> /\ InSchema(rules)) =>
        ret = (IF AllPass(rules, platform) THEN "true" ELSE "false")

\* C2: rules_match applied to an empty rule list returns true.
C2_EmptyListIsTrue ==
    (ret # "none" /\ rules = <<>>) => ret = "true"

\* The list handed to rules_match holds one rule, so that what rules_match
\* returned is what rule_matches returned for that rule.
OneRule == Len(rules) = 1

NameMatches(value, plat) == value = plat.os \/ (value = "osx" /\ plat.os = "macos")

ArchMatches(value, plat) == value = plat.arch \/ (value = "x86" /\ plat.arch = "x86_64")

\* C25: a rule whose predicate is a feature-flag condition is evaluated to a
\* boolean that treats the predicate as non-matching: an allow feature rule
\* fails and a disallow feature rule passes.
C25_FeatureRuleIsNonMatching ==
    ( /\ ret # "none" /\ OneRule
      /\ rules[1].kind = "features"
      /\ rules[1].action \in {"allow", "disallow"} ) =>
        ret = (IF rules[1].action = "disallow" THEN "true" ELSE "false")

\* C26: a rule list in which some rule has an action other than
\* allow/disallow or an OS predicate key other than name/arch/version never
\* yields a boolean: the evaluation aborts.
C26_OutOfSchemaRuleAborts ==
    (ret # "none" /\ ~InSchema(rules)) => ret = "panic"

\* C27: an OS rule whose only sub-condition is version matches on every
\* platform, so that allow passes and disallow fails.
C27_VersionOnlyRuleMatchesEverywhere ==
    ( /\ ret # "none" /\ OneRule
      /\ rules[1].kind = "os"
      /\ DOMAIN rules[1].os = {"version"}
      /\ rules[1].action \in {"allow", "disallow"} ) =>
        ret = (IF rules[1].action = "allow" THEN "true" ELSE "false")

\* C28: an allow rule with a name and an arch sub-condition passes exactly
\* when the name matches the current OS and the arch matches the current
\* architecture.
C28_NameAndArchMustBothMatch ==
    ( /\ ret # "none" /\ OneRule
      /\ rules[1].kind = "os"
      /\ DOMAIN rules[1].os = {"name", "arch"}
      /\ rules[1].action = "allow" ) =>
        (ret = "true" <=> ( /\ NameMatches(rules[1].os["name"], platform)
                            /\ ArchMatches(rules[1].os["arch"], platform) ))

====
